---- MODULE Spec2Model ----
(***************************************************************************)
(* Rule knowledge base, fact base and forward-chaining engine of main.py.  *)
(* Strings are sequences of one-character strings, so that normalize, the  *)
(* emptiness tests and the ordering of rule ids are computed, not assumed. *)
(***************************************************************************)
EXTENDS Integers, Sequences, FiniteSets, TLC

VARIABLES
    rules,      \* KnowledgeBase.rules : id -> Rule
    facts,      \* FactBase.facts of the fact store
    pc,         \* position of ForwardChainer.run
    fb_run,     \* self.fb.facts of the chainer that runs
    inferred,   \* run: inferred
    trace,      \* run: trace
    step,       \* run: step
    applied,    \* run: applied
    order,      \* run: the list the for loop iterates (kb.list_rules())
    idx,        \* run: position of the for loop in order
    prev,       \* what the previous call of run returned, and on what
    runs,       \* calls of run since the stores last changed
    final,      \* infer_and_show: final, the category classify returned
    text,       \* normalize: its argument s
    token       \* normalize: what it returned

vars == <<rules, facts, pc, fb_run, inferred, trace, step, applied, order, idx, prev, runs,
          final, text, token>>

(***************************************************************************)
(* Bounds of the model.                                                    *)
(***************************************************************************)
\* Largest number of calls of run followed between two store calls.
MaxRuns == 2
\* Largest number of trace entries a run is followed for.
MaxTrace == 4
\* Longest string handed to normalize on its own.
MaxStrLen == 4

(***************************************************************************)
(* Strings.                                                                *)
(***************************************************************************)
UpperChars == <<"A","B","C","D","E","F","G","H","I","J","K","L","M",
                "N","O","P","Q","R","S","T","U","V","W","X","Y","Z">>
LowerChars == <<"a","b","c","d","e","f","g","h","i","j","k","l","m",
                "n","o","p","q","r","s","t","u","v","w","x","y","z">>
DigitChars == <<"0","1","2","3","4","5","6","7","8","9">>

\* The characters str.strip() removes.
IsSpace(c) == c \in {" ", "\t", "\n", "\r"}

RECURSIVE lstrip(_)
lstrip(s) ==
    IF s = <<>> THEN s
    ELSE IF IsSpace(Head(s)) THEN lstrip(Tail(s)) ELSE s

RECURSIVE rstrip(_)
rstrip(s) ==
    IF s = <<>> THEN s
    ELSE IF IsSpace(s[Len(s)]) THEN rstrip(SubSeq(s, 1, Len(s) - 1)) ELSE s

strip(s) == rstrip(lstrip(s))

lower_char(c) ==
    IF \E i \in 1..Len(UpperChars) : UpperChars[i] = c
    THEN LowerChars[CHOOSE i \in 1..Len(UpperChars) : UpperChars[i] = c]
    ELSE c

lower(s) == [i \in 1..Len(s) |-> lower_char(s[i])]

\* str.replace(" ", "_"): every space character, one for one.
replace_space(s) == [i \in 1..Len(s) |-> IF s[i] = " " THEN "_" ELSE s[i]]

normalize(s) == replace_space(lower(strip(s)))

\* Code point order of the characters rule ids are written with.
Ord(c) ==
    IF \E i \in 1..Len(DigitChars) : DigitChars[i] = c
    THEN 47 + (CHOOSE i \in 1..Len(DigitChars) : DigitChars[i] = c)
    ELSE IF \E i \in 1..Len(UpperChars) : UpperChars[i] = c
    THEN 64 + (CHOOSE i \in 1..Len(UpperChars) : UpperChars[i] = c)
    ELSE IF \E i \in 1..Len(LowerChars) : LowerChars[i] = c
    THEN 96 + (CHOOSE i \in 1..Len(LowerChars) : LowerChars[i] = c)
    ELSE IF c = "_" THEN 95 ELSE 32

\* Python's < on str: lexicographic by code point.
RECURSIVE StrLess(_, _)
StrLess(s, t) ==
    IF t = <<>> THEN FALSE
    ELSE IF s = <<>> THEN TRUE
    ELSE IF Ord(Head(s)) # Ord(Head(t)) THEN Ord(Head(s)) < Ord(Head(t))
    ELSE StrLess(Tail(s), Tail(t))

(***************************************************************************)
(* Tokens and inputs.                                                      *)
(***************************************************************************)
tok_a == <<"a">>
tok_b == <<"b">>
tok_c == <<"c">>
tok_b3 == <<"b","3">>
tok_anorganik == <<"a","n","o","r","g","a","n","i","k">>
tok_organik == <<"o","r","g","a","n","i","k">>
tok_unknown == <<"u","n","k","n","o","w","n">>

R1 == <<"R","1">>
R2 == <<"R","2">>
R3 == <<"R","3">>
RuleIds == {R1, R2, R3}

\* What callers pass: text as typed, before normalization.
in_a == <<"a">>
in_A_b == << <<" ","A">>, <<"b">> >>
in_c_B == << <<"c">>, <<"B"," ">> >>
in_Organik == <<"O","r","g","a","n","i","k">>
in_B3 == <<" ","B","3">>
in_blank == <<" ">>
in_5 == <<"5">>
in_x == <<"x">>

\* (conditions, conclusion) of the rules callers add.
BodyInputs ==
    { <<in_A_b, in_Organik>>, << <<in_a>>, tok_c >>, <<in_c_B, in_B3>>,
      << <<tok_c>>, tok_a >>, << <<>>, tok_c >> }
PrioInputs == {0, 5}
DescInputs == { <<>> }
FactInputs == { <<"A">>, <<" ","b">>, tok_a, in_blank }

(***************************************************************************)
(* int(): the text of an integer, or ValueError.                           *)
(***************************************************************************)
IsDigit(c) == \E i \in 1..Len(DigitChars) : DigitChars[i] = c

DigitVal(c) == (CHOOSE i \in 1..Len(DigitChars) : DigitChars[i] = c) - 1

RECURSIVE DigitsVal(_)
DigitsVal(s) ==
    IF s = <<>> THEN 0
    ELSE 10 * DigitsVal(SubSeq(s, 1, Len(s) - 1)) + DigitVal(s[Len(s)])

\* [ok |-> FALSE] stands for ValueError.
int(s) ==
    LET t == strip(s)
        neg == t # <<>> /\ Head(t) = "-"
        signed == t # <<>> /\ Head(t) \in {"-", "+"}
        d == IF signed THEN Tail(t) ELSE t
    IN  IF d # <<>> /\ \A i \in 1..Len(d) : IsDigit(d[i])
        THEN [ok |-> TRUE, val |-> IF neg THEN 0 - DigitsVal(d) ELSE DigitsVal(d)]
        ELSE [ok |-> FALSE, val |-> 0]

(***************************************************************************)
(* Rule.                                                                   *)
(***************************************************************************)
normalize_all(conditions) == [i \in 1..Len(conditions) |-> normalize(conditions[i])]

Rule(rule_id, conditions, conclusion, priority, description) ==
    [id |-> rule_id,
     conditions |-> normalize_all(conditions),
     conclusion |-> normalize(conclusion),
     priority |-> priority,
     description |-> description]

(***************************************************************************)
(* KnowledgeBase.                                                          *)
(***************************************************************************)
\* add_rule without the test of line 56.
add_rule_Overwrite(rs, rule) ==
    [ok |-> TRUE,
     rules |-> [i \in DOMAIN rs \cup {rule.id} |-> IF i = rule.id THEN rule ELSE rs[i]]]

\* add_rule: what it returns and the rules it leaves.
add_rule(rs, rule) ==
    IF rule.id \in DOMAIN rs
    THEN [ok |-> FALSE, rules |-> rs]
    ELSE [ok |-> TRUE, rules |-> rs @@ (rule.id :> rule)]

\* A field of update_rule's **fields: given or not.
Given(v) == [has |-> TRUE, val |-> v]
NotGiven == [has |-> FALSE, val |-> <<>>]

\* update_rule mutates the stored Rule field by field, in the order of the
\* code, and returns at the first field it rejects.
update_rule(rs, rule_id, fields) ==
    IF rule_id \notin DOMAIN rs THEN [ok |-> FALSE, rules |-> rs]
    ELSE
    LET r == rs[rule_id]
        put(x) == [rs EXCEPT ![rule_id] = x]
        new_conditions == normalize_all(fields.conditions.val)
        r1 == IF fields.conditions.has THEN [r EXCEPT !.conditions = new_conditions] ELSE r
        r2 == IF fields.conclusion.has
              THEN [r1 EXCEPT !.conclusion = normalize(fields.conclusion.val)] ELSE r1
        p == int(fields.priority.val)
        r3 == IF fields.priority.has THEN [r2 EXCEPT !.priority = p.val] ELSE r2
        r4 == IF fields.description.has
              THEN [r3 EXCEPT !.description = fields.description.val] ELSE r3
    IN  IF fields.conditions.has /\ Len(new_conditions) = 0
        THEN [ok |-> FALSE, rules |-> rs]
        ELSE IF fields.conclusion.has /\ strip(fields.conclusion.val) = <<>>
        THEN [ok |-> FALSE, rules |-> put(r1)]
        ELSE IF fields.priority.has /\ ~p.ok
        THEN [ok |-> FALSE, rules |-> put(r2)]
        ELSE [ok |-> TRUE, rules |-> put(r4)]

delete_rule(rs, rule_id) ==
    IF rule_id \notin DOMAIN rs
    THEN [ok |-> FALSE, rules |-> rs]
    ELSE [ok |-> TRUE, rules |-> [i \in DOMAIN rs \ {rule_id} |-> rs[i]]]

\* KeyLess with the sign of the priority lost: lowest priority first.
KeyLess_Ascending(r, q) ==
    \/ r.priority < q.priority
    \/ r.priority = q.priority /\ StrLess(r.id, q.id)

\* A sort key that leaves the priority out.
KeyLess_IdOnly(r, q) == StrLess(r.id, q.id)

\* The sort key (-priority, id) of list_rules, compared as Python compares tuples.
KeyLess(r, q) ==
    \/ r.priority > q.priority
    \/ r.priority = q.priority /\ StrLess(r.id, q.id)

RECURSIVE SortedBy(_)
SortedBy(S) ==
    IF S = {} THEN <<>>
    ELSE LET m == CHOOSE x \in S : \A y \in S \ {x} : KeyLess(x, y)
         IN  <<m>> \o SortedBy(S \ {m})

list_rules(rs) == SortedBy({rs[i] : i \in DOMAIN rs})

(***************************************************************************)
(* FactBase.                                                               *)
(***************************************************************************)
\* add_fact without the test of line 128.
add_fact_KeepEmpty(fs, fact) ==
    LET f == normalize(fact)
    IN  IF f \in fs THEN [ok |-> FALSE, facts |-> fs]
        ELSE [ok |-> TRUE, facts |-> fs \cup {f}]

add_fact(fs, fact) ==
    LET f == normalize(fact)
    IN  IF f = <<>> THEN [ok |-> FALSE, facts |-> fs]
        ELSE IF f \in fs THEN [ok |-> FALSE, facts |-> fs]
        ELSE [ok |-> TRUE, facts |-> fs \cup {f}]

remove_fact(fs, fact) ==
    LET f == normalize(fact)
    IN  IF f \notin fs THEN [ok |-> FALSE, facts |-> fs]
        ELSE [ok |-> TRUE, facts |-> fs \ {f}]

(***************************************************************************)
(* ForwardChainer.                                                         *)
(***************************************************************************)
\* CanFire without the test of line 181.
CanFire_Unguarded(rule, inf) ==
    \A i \in 1..Len(rule.conditions) : rule.conditions[i] \in inf

\* CanFire with any() for the all() of line 180.
CanFire_AnyCondition(rule, inf) ==
    /\ \E i \in 1..Len(rule.conditions) : rule.conditions[i] \in inf
    /\ rule.conclusion \notin inf

\* CanFire with the test of line 181 made against the facts other than the
\* rule's own conditions.
CanFire_IgnoreOwn(rule, inf) ==
    /\ \A i \in 1..Len(rule.conditions) : rule.conditions[i] \in inf
    /\ rule.conclusion \notin (inf \ {rule.conditions[i] : i \in 1..Len(rule.conditions)})

\* The test of lines 180-181: all conditions known, conclusion not yet.
CanFire(rule, inf) ==
    /\ \A i \in 1..Len(rule.conditions) : rule.conditions[i] \in inf
    /\ rule.conclusion \notin inf

TraceEntry(rule, n) ==
    [step |-> n,
     rule_id |-> rule.id,
     conditions |-> rule.conditions,
     conclusion |-> rule.conclusion,
     priority |-> rule.priority]

classify_OrganikFirst(inf) ==
    IF tok_organik \in inf THEN tok_organik
    ELSE IF tok_anorganik \in inf THEN tok_anorganik
    ELSE IF tok_b3 \in inf THEN tok_b3
    ELSE tok_unknown

classify(inf) ==
    IF tok_b3 \in inf THEN tok_b3
    ELSE IF tok_anorganik \in inf THEN tok_anorganik
    ELSE IF tok_organik \in inf THEN tok_organik
    ELSE tok_unknown

\* The **fields callers pass to update_rule.
Fields(cond, concl, prio, desc) ==
    [conditions |-> cond, conclusion |-> concl, priority |-> prio, description |-> desc]

UpdateInputs ==
    { Fields(NotGiven, NotGiven, Given(in_5), Given(<<>>)),
      Fields(Given(in_c_B), Given(in_B3), NotGiven, NotGiven),
      Fields(NotGiven, NotGiven, Given(in_x), Given(<<"d">>)),
      Fields(Given(<<>>), Given(tok_c), NotGiven, NotGiven),
      Fields(Given(<<in_a>>), Given(in_blank), NotGiven, NotGiven),
      Fields(Given(<<in_a>>), NotGiven, Given(in_x), NotGiven) }

(***************************************************************************)
(* The state after construction: KnowledgeBase(), FactBase(), no run.      *)
(***************************************************************************)
NoPrev == [has |-> FALSE, rules |-> <<>>, facts |-> {}, inferred |-> {}, trace |-> <<>>]

Init ==
    /\ rules = <<>>
    /\ facts = {}
    /\ pc = "idle"
    /\ fb_run = {}
    /\ inferred = {}
    /\ trace = <<>>
    /\ step = 1
    /\ applied = FALSE
    /\ order = <<>>
    /\ idx = 1
    /\ prev = NoPrev
    /\ runs = 0
    /\ final = <<>>
    /\ text = <<>>
    /\ token = <<>>

\* The locals of run and of its caller are gone.
DropRun ==
    /\ pc' = "idle"
    /\ fb_run' = {}
    /\ inferred' = {}
    /\ trace' = <<>>
    /\ step' = 1
    /\ applied' = FALSE
    /\ order' = <<>>
    /\ idx' = 1
    /\ prev' = NoPrev
    /\ runs' = 0
    /\ final' = <<>>
    /\ UNCHANGED <<text, token>>

(***************************************************************************)
(* Store calls.                                                            *)
(***************************************************************************)
AddRule(rule_id, body, priority, description) ==
    /\ pc = "idle"
    /\ rules' = add_rule(rules, Rule(rule_id, body[1], body[2], priority, description)).rules
    /\ UNCHANGED facts
    /\ DropRun

UpdateRule(rule_id, fields) ==
    /\ pc = "idle"
    /\ rules' = update_rule(rules, rule_id, fields).rules
    /\ UNCHANGED facts
    /\ DropRun

DeleteRule(rule_id) ==
    /\ pc = "idle"
    /\ rules' = delete_rule(rules, rule_id).rules
    /\ UNCHANGED facts
    /\ DropRun

AddFact(fact) ==
    /\ pc = "idle"
    /\ facts' = add_fact(facts, fact).facts
    /\ UNCHANGED rules
    /\ DropRun

RemoveFact(fact) ==
    /\ pc = "idle"
    /\ facts' = remove_fact(facts, fact).facts
    /\ UNCHANGED rules
    /\ DropRun

(***************************************************************************)
(* ForwardChainer.run, one action per step of its loops.                   *)
(***************************************************************************)
\* What the caller holds when run has returned.
Returned ==
    [has |-> TRUE, rules |-> rules, facts |-> fb_run, inferred |-> inferred, trace |-> trace]

\* Enter with the trace kept from the call before (line 173 lost).
Enter_KeepTrace(fb) ==
    /\ pc \in {"idle", "done"}
    /\ runs < MaxRuns
    /\ runs' = runs + 1
    /\ prev' = IF pc = "done" THEN Returned ELSE NoPrev
    /\ fb_run' = fb
    /\ inferred' = fb
    /\ trace' = trace
    /\ step' = 1
    /\ applied' = TRUE
    /\ order' = <<>>
    /\ idx' = 1
    /\ pc' = "while"
    /\ final' = <<>>
    /\ UNCHANGED <<rules, facts, text, token>>

\* Lines 172-176, entered with the fact base fb.
Enter(fb) ==
    /\ pc \in {"idle", "done"}
    /\ runs < MaxRuns
    /\ runs' = runs + 1
    /\ prev' = IF pc = "done" THEN Returned ELSE NoPrev
    /\ fb_run' = fb
    /\ inferred' = fb
    /\ trace' = <<>>
    /\ step' = 1
    /\ applied' = TRUE
    /\ order' = <<>>
    /\ idx' = 1
    /\ pc' = "while"
    /\ final' = <<>>
    /\ UNCHANGED <<rules, facts, text, token>>

\* ForwardChainer(kb, fb).run() on the fact store.
RunStart == Enter(facts)

\* run() again, the chainer built over a fact base that holds the returned set.
RunFedBack == pc = "done" /\ Enter(inferred)

\* PassStart with applied left set (line 178 lost).
PassStart_NoReset ==
    /\ pc = "while"
    /\ applied
    /\ applied' = applied
    /\ order' = list_rules(rules)
    /\ idx' = 1
    /\ pc' = "for"
    /\ UNCHANGED <<rules, facts, fb_run, inferred, trace, step, prev, runs, final, text, token>>

\* Line 177 true, lines 178-179: a pass begins over a fresh list_rules().
PassStart ==
    /\ pc = "while"
    /\ applied
    /\ applied' = FALSE
    /\ order' = list_rules(rules)
    /\ idx' = 1
    /\ pc' = "for"
    /\ UNCHANGED <<rules, facts, fb_run, inferred, trace, step, prev, runs, final, text, token>>

\* RuleFires without marking the pass (line 191 lost).
RuleFires_NoMark ==
    /\ pc = "for"
    /\ idx <= Len(order)
    /\ CanFire(order[idx], inferred)
    /\ Len(trace) < MaxTrace
    /\ inferred' = inferred \cup {order[idx].conclusion}
    /\ trace' = Append(trace, TraceEntry(order[idx], step))
    /\ step' = step + 1
    /\ applied' = applied
    /\ idx' = idx + 1
    /\ UNCHANGED <<rules, facts, pc, fb_run, order, prev, runs, final, text, token>>

\* RuleFires with the working set replaced by the conclusion, not extended.
RuleFires_Replace ==
    /\ pc = "for"
    /\ idx <= Len(order)
    /\ CanFire(order[idx], inferred)
    /\ Len(trace) < MaxTrace
    /\ inferred' = {order[idx].conclusion}
    /\ trace' = Append(trace, TraceEntry(order[idx], step))
    /\ step' = step + 1
    /\ applied' = TRUE
    /\ idx' = idx + 1
    /\ UNCHANGED <<rules, facts, pc, fb_run, order, prev, runs, final, text, token>>

\* RuleFires without the step += 1 of line 190.
RuleFires_StepKept ==
    /\ pc = "for"
    /\ idx <= Len(order)
    /\ CanFire(order[idx], inferred)
    /\ Len(trace) < MaxTrace
    /\ inferred' = inferred \cup {order[idx].conclusion}
    /\ trace' = Append(trace, TraceEntry(order[idx], step))
    /\ step' = step
    /\ applied' = TRUE
    /\ idx' = idx + 1
    /\ UNCHANGED <<rules, facts, pc, fb_run, order, prev, runs, final, text, token>>

\* RuleFires on the Fact Store's own set, not the copy of line 172.
RuleFires_Aliased ==
    /\ pc = "for"
    /\ idx <= Len(order)
    /\ CanFire(order[idx], inferred)
    /\ Len(trace) < MaxTrace
    /\ inferred' = inferred \cup {order[idx].conclusion}
    /\ facts' = facts \cup {order[idx].conclusion}
    /\ trace' = Append(trace, TraceEntry(order[idx], step))
    /\ step' = step + 1
    /\ applied' = TRUE
    /\ idx' = idx + 1
    /\ UNCHANGED <<rules, pc, fb_run, order, prev, runs, final, text, token>>

\* Lines 180-191: the rule under the loop fires.
RuleFires ==
    /\ pc = "for"
    /\ idx <= Len(order)
    /\ CanFire(order[idx], inferred)
    /\ Len(trace) < MaxTrace
    /\ inferred' = inferred \cup {order[idx].conclusion}
    /\ trace' = Append(trace, TraceEntry(order[idx], step))
    /\ step' = step + 1
    /\ applied' = TRUE
    /\ idx' = idx + 1
    /\ UNCHANGED <<rules, facts, pc, fb_run, order, prev, runs, final, text, token>>

\* Lines 180-181 false: the loop moves on.
RuleSkipped ==
    /\ pc = "for"
    /\ idx <= Len(order)
    /\ ~CanFire(order[idx], inferred)
    /\ idx' = idx + 1
    /\ UNCHANGED <<rules, facts, pc, fb_run, inferred, trace, step, applied, order, prev, runs, final, text, token>>

\* The for loop is exhausted: back to the while test.
PassEnd ==
    /\ pc = "for"
    /\ idx > Len(order)
    /\ pc' = "while"
    /\ UNCHANGED <<rules, facts, fb_run, inferred, trace, step, applied, order, idx, prev, runs, final, text, token>>

\* Line 177 false, line 193: return inferred, trace.
Return ==
    /\ pc = "while"
    /\ ~applied
    /\ pc' = "done"
    /\ UNCHANGED <<rules, facts, fb_run, inferred, trace, step, applied, order, idx, prev, runs, final, text, token>>

\* The caller lets go of what run returned (infer_and_show returns).
Forget ==
    /\ pc = "done"
    /\ DropRun
    /\ UNCHANGED <<rules, facts>>

\* Line 247: final = ch.classify(inferred), on what run returned.
Classify ==
    /\ pc = "done"
    /\ final = <<>>
    /\ final' = classify(inferred)
    /\ UNCHANGED <<rules, facts, pc, fb_run, inferred, trace, step, applied, order, idx, prev,
                   runs, text, token>>

RunStep == PassStart \/ RuleFires \/ RuleSkipped \/ PassEnd \/ Return

Next ==
    \/ \E i \in RuleIds, b \in BodyInputs, p \in PrioInputs, d \in DescInputs : AddRule(i, b, p, d)
    \/ \E i \in RuleIds, f \in UpdateInputs : UpdateRule(i, f)
    \/ \E i \in RuleIds : DeleteRule(i)
    \/ \E f \in FactInputs : AddFact(f)
    \/ \E f \in FactInputs : RemoveFact(f)
    \/ RunStart
    \/ RunFedBack
    \/ RunStep
    \/ Classify
    \/ Forget

Spec == Init /\ [][Next]_vars

\* The calls that fill the stores, and single runs over them.
FillAndRun ==
    \/ \E i \in RuleIds, b \in BodyInputs, p \in PrioInputs, d \in DescInputs : AddRule(i, b, p, d)
    \/ \E i \in RuleIds : DeleteRule(i)
    \/ \E f \in FactInputs : AddFact(f)
    \/ \E f \in FactInputs : RemoveFact(f)
    \/ (pc = "idle" /\ RunStart)
    \/ RunStep
    \/ Forget

\* run() is straight-line code in one thread: once entered it keeps stepping.
FairSpec == Init /\ [][FillAndRun]_vars /\ WF_vars(RunStep)

(***************************************************************************)
(* Properties.                                                             *)
(***************************************************************************)
Running == pc \in {"while", "for"}

\* The working set just before the k-th firing of the run.
InfBefore(k) == fb_run \cup {trace[m].conclusion : m \in 1..(k - 1)}

CondSet(r) == {r.conditions[i] : i \in 1..Len(r.conditions)}

Closed(rs, inf) == \A i \in DOMAIN rs : CondSet(rs[i]) \subseteq inf => rs[i].conclusion \in inf

\* The invariant of the data model: conditions non-empty, no empty token.
WellFormed(rs) ==
    \A i \in DOMAIN rs :
        /\ Len(rs[i].conditions) > 0
        /\ \A k \in 1..Len(rs[i].conditions) : rs[i].conditions[k] # <<>>
        /\ rs[i].conclusion # <<>>

TraceIds == [k \in 1..Len(trace) |-> trace[k].rule_id]
TraceSteps == [k \in 1..Len(trace) |-> trace[k].step]

\* C1: a call of update_rule that returns failure leaves every stored rule as it was.
C1_UpdateAtomic ==
    [][\A i \in RuleIds, f \in UpdateInputs :
          (UpdateRule(i, f) /\ ~update_rule(rules, i, f).ok) => rules' = rules]_vars

\* C2: every stored rule has at least one condition, no empty condition token
\* and a non-empty conclusion token.
C2_StoredRulesValid == WellFormed(rules)

\* C3: of two rules that both fire and whose conditions both held before either
\* fired, the one with the higher priority (the smaller id, on equal priority)
\* has the lower step number (in a run over well-formed rules).
C3_PriorityOrder ==
    WellFormed(rules) =>
    \A i, j \in 1..Len(trace) :
        (i < j /\ CondSet(trace[j]) \subseteq InfBefore(i)) =>
            /\ trace[j].priority <= trace[i].priority
            /\ trace[j].priority = trace[i].priority => StrLess(trace[i].rule_id, trace[j].rule_id)

\* The first rule of list_rules() that can fire on inf, as a set of at most one id.
FirstEnabled(inf) ==
    LET l == list_rules(rules)
    IN  {l[k].id : k \in {n \in 1..Len(l) :
            CanFire(l[n], inf) /\ \A m \in 1..(n - 1) : ~CanFire(l[m], inf)}}

\* C4: every firing is of the first rule, in (priority descending, id ascending)
\* order, that is enabled on the working set just before the firing (in a run
\* over well-formed rules).
C4_FirstEnabledFires ==
    WellFormed(rules) =>
    \A k \in 1..Len(trace) : FirstEnabled(InfBefore(k)) = {trace[k].rule_id}

\* The example of the specification: R1: [a,b] -> organik (0), R2: [a] -> c (5),
\* R3: [c,b] -> b3 (0), facts {a, b}.
ExampleRun ==
    /\ pc = "done"
    /\ DOMAIN rules = {R1, R2, R3}
    /\ rules[R1].conditions = <<tok_a, tok_b>> /\ rules[R1].conclusion = tok_organik
    /\ rules[R1].priority = 0
    /\ rules[R2].conditions = <<tok_a>> /\ rules[R2].conclusion = tok_c
    /\ rules[R2].priority = 5
    /\ rules[R3].conditions = <<tok_c, tok_b>> /\ rules[R3].conclusion = tok_b3
    /\ rules[R3].priority = 0
    /\ fb_run = {tok_a, tok_b}

ExampleResult(ids) ==
    /\ TraceIds = ids
    /\ TraceSteps = <<1, 2, 3>>
    /\ inferred = {tok_a, tok_b, tok_c, tok_b3, tok_organik}
    /\ classify(inferred) = tok_b3

\* C5 as stated: the example run returns the trace R2, R3, R1.
C5_ExampleAsStated == ExampleRun => ExampleResult(<<R2, R3, R1>>)

\* C5 amended: the example run returns the trace R2 (step 1), R1 (step 2),
\* R3 (step 3), the set {a, b, c, b3, organik}, and classify gives b3.
C5_Example == ExampleRun => ExampleResult(<<R2, R1, R3>>)

C5_Witness == ExampleRun /\ Len(trace) = 3

\* C6: no rule id appears in two entries of the trace of a run.
C6_AtMostOnce ==
    \A i, j \in 1..Len(trace) : trace[i].rule_id = trace[j].rule_id => i = j

\* Two rules with one conclusion, both satisfied at the end, after two passes that fired.
C6_Witness ==
    /\ pc = "done"
    /\ Len(trace) >= 2
    /\ \E i, j \in DOMAIN rules :
          /\ i # j
          /\ rules[i].conclusion = rules[j].conclusion
          /\ CondSet(rules[i]) \subseteq fb_run
          /\ CondSet(rules[j]) \subseteq fb_run
          /\ \E k \in 1..Len(trace) : trace[k].rule_id = i

\* C7: a run that has been entered returns; it returns from the while test with
\* applied false after a for loop that went through every stored rule, applied
\* being set by every firing and cleared only where a pass begins; and the
\* trace never has more entries than there are rules.
C7_Termination ==
    /\ [](pc = "done" =>
            /\ ~applied
            /\ order = list_rules(rules)
            /\ Len(order) = Cardinality(DOMAIN rules)
            /\ idx = Len(order) + 1)
    /\ [](Len(trace) <= Cardinality(DOMAIN rules))
    /\ [][(pc = "for" /\ trace' # trace) => applied']_vars
    /\ [][(applied /\ ~applied') => (pc = "while" /\ pc' = "for") \/ pc' = "idle"]_vars
    /\ [][(pc = "for" /\ pc' = "for") => idx' = idx + 1]_vars
    /\ [][(pc = "for" /\ pc' # "for") => idx > Len(order)]_vars
    /\ (Running ~> pc = "done")

\* A run over the cycle a -> c, c -> a has returned, having fired.
C7_Witness ==
    /\ pc = "done"
    /\ trace # <<>>
    /\ \E i, j \in DOMAIN rules :
          /\ rules[i].conditions = <<tok_a>> /\ rules[i].conclusion = tok_c
          /\ rules[j].conditions = <<tok_c>> /\ rules[j].conclusion = tok_a

\* C8: the returned set is closed under the rules, and a run over the same rules
\* that starts from a returned set fires nothing and returns that set.
C8_FixedPoint ==
    pc = "done" =>
        /\ Closed(rules, inferred)
        /\ (prev.has /\ prev.rules = rules /\ fb_run = prev.inferred) =>
               (trace = <<>> /\ inferred = prev.inferred)

\* The run fed with the result of a run that fired has returned.
C8_Witness ==
    /\ pc = "done"
    /\ prev.has /\ prev.rules = rules /\ fb_run = prev.inferred
    /\ Len(prev.trace) >= 2

\* classify on its own: the set handed to it is any set of these tokens, the
\* three categories, the word unknown and three other facts.
ClassifyTokens == {tok_a, tok_b, tok_c, tok_b3, tok_anorganik, tok_organik, tok_unknown}

ClassifyInit ==
    /\ rules = <<>>
    /\ facts = {}
    /\ pc = "done"
    /\ fb_run = {}
    /\ inferred \in SUBSET ClassifyTokens
    /\ trace = <<>>
    /\ step = 1
    /\ applied = FALSE
    /\ order = <<>>
    /\ idx = 1
    /\ prev = NoPrev
    /\ runs = 0
    /\ final = <<>>
    /\ text = <<>>
    /\ token = <<>>

ClassifySpec == ClassifyInit /\ [][Classify]_vars

\* normalize on its own: its argument is any string of up to MaxStrLen of these
\* characters, a lower-case letter, an upper-case letter, the space and the tab.
NormalizeChars == {"a", "B", " ", "\t"}

NormalizeInit ==
    /\ rules = <<>>
    /\ facts = {}
    /\ pc = "normalize"
    /\ fb_run = {}
    /\ inferred = {}
    /\ trace = <<>>
    /\ step = 1
    /\ applied = FALSE
    /\ order = <<>>
    /\ idx = 1
    /\ prev = NoPrev
    /\ runs = 0
    /\ final = <<>>
    /\ text \in UNION {[1..n -> NormalizeChars] : n \in 0..MaxStrLen}
    /\ token = <<>>

\* Lines 12-13: return s.strip().lower().replace(" ", "_").
Normalize ==
    /\ pc = "normalize"
    /\ token' = normalize(text)
    /\ pc' = "returned"
    /\ UNCHANGED <<rules, facts, fb_run, inferred, trace, step, applied, order, idx, prev,
                   runs, final, text>>

NormalizeSpec == NormalizeInit /\ [][Normalize]_vars

\* C9: during a run inferred never loses a fact, what it gains is the
\* conclusion of a stored rule, and it always contains the facts run began with.
C9_Monotonic ==
    /\ [][Running =>
            /\ inferred \subseteq inferred'
            /\ inferred' \ inferred \subseteq {rules[i].conclusion : i \in DOMAIN rules}]_vars
    /\ [](pc # "idle" => fb_run \subseteq inferred)

C9_Witness == pc = "done" /\ fb_run # {} /\ Cardinality(inferred \ fb_run) >= 2

\* C10: a second run on the same rules and the same facts returns the same
\* inferred set and the same trace as the first.
C10_Deterministic ==
    (pc = "done" /\ prev.has /\ prev.rules = rules /\ prev.facts = fb_run) =>
        (inferred = prev.inferred /\ trace = prev.trace)

C10_Witness ==
    /\ pc = "done"
    /\ prev.has /\ prev.rules = rules /\ prev.facts = fb_run
    /\ Len(trace) >= 2

\* C11: classify returns b3 when b3 is in the set; otherwise anorganik when
\* anorganik is in it; otherwise organik when organik is in it; otherwise
\* unknown, whatever else the set holds.
C11_ClassifierPrecedence ==
    final # <<>> =>
        /\ tok_b3 \in inferred => final = tok_b3
        /\ (tok_b3 \notin inferred /\ tok_anorganik \in inferred) => final = tok_anorganik
        /\ (tok_b3 \notin inferred /\ tok_anorganik \notin inferred /\ tok_organik \in inferred)
               => final = tok_organik
        /\ (tok_b3 \notin inferred /\ tok_anorganik \notin inferred /\ tok_organik \notin inferred)
               => final = tok_unknown

C11_Witness ==
    /\ final = tok_b3
    /\ tok_organik \in inferred
    /\ tok_anorganik \in inferred

\* C12: list_rules returns exactly the stored rules, each once and none
\* missing, ordered by priority descending and, among equal priorities, by id
\* ascending, whatever add, update and delete calls built the store.
C12_ListSorted ==
    LET L == list_rules(rules)
    IN  /\ Len(L) = Cardinality(DOMAIN rules)
        /\ \A i \in DOMAIN rules : \E k \in 1..Len(L) : L[k] = rules[i]
        /\ \A k \in 1..Len(L) : L[k].id \in DOMAIN rules /\ L[k] = rules[L[k].id]
        /\ \A j, k \in 1..Len(L) :
               j < k => \/ L[j].priority > L[k].priority
                        \/ L[j].priority = L[k].priority /\ StrLess(L[j].id, L[k].id)

C12_Witness ==
    /\ DOMAIN rules = RuleIds
    /\ rules[R1].priority = 0 /\ rules[R2].priority = 0 /\ rules[R3].priority = 5
    /\ list_rules(rules)[1].id = R3
    /\ list_rules(rules)[2].id = R1

\* C13: at every store the calls reach, add_rule with an id already stored
\* returns failure and leaves every stored rule as it was (AddRule stores what
\* it leaves); with a new id it returns success and stores the rule beside the
\* others; so every stored rule sits under its own id and
\* list_rules never shows an id twice.
C13_AddUnique ==
    /\ pc = "idle" =>
           \A i \in RuleIds, b \in BodyInputs, p \in PrioInputs, d \in DescInputs :
               LET rule == Rule(i, b[1], b[2], p, d)
                   res == add_rule(rules, rule)
               IN  IF i \in DOMAIN rules
                   THEN ~res.ok /\ res.rules = rules
                   ELSE /\ res.ok
                        /\ DOMAIN res.rules = DOMAIN rules \cup {i}
                        /\ res.rules[i] = rule
                        /\ \A j \in DOMAIN rules : res.rules[j] = rules[j]
    /\ \A i \in DOMAIN rules : rules[i].id = i
    /\ LET L == list_rules(rules)
       IN  \A j, k \in 1..Len(L) : j # k => L[j].id # L[k].id

\* A full store in which R1 is still the rule first added under that id.
C13_Witness ==
    /\ DOMAIN rules = RuleIds
    /\ rules[R1] = Rule(R1, in_A_b, in_Organik, 0, <<>>)
    /\ ~add_rule(rules, Rule(R1, <<in_a>>, tok_c, 5, <<>>)).ok

\* C14: add_fact fails when the fact is empty after normalization or its
\* normalized form is already stored, and otherwise inserts the normalized
\* token; remove_fact fails when the normalized fact is not stored and otherwise
\* removes it; a failing call leaves the facts as they were; the facts stored
\* are non-empty tokens that normalize leaves as they are.
C14_FactStore ==
    /\ [][\A f \in FactInputs :
             LET n == normalize(f)
             IN  /\ AddFact(f) =>
                        IF n = <<>> \/ n \in facts
                        THEN ~add_fact(facts, f).ok /\ facts' = facts
                        ELSE add_fact(facts, f).ok /\ facts' = facts \cup {n}
                 /\ RemoveFact(f) =>
                        IF n \notin facts
                        THEN ~remove_fact(facts, f).ok /\ facts' = facts
                        ELSE remove_fact(facts, f).ok /\ facts' = facts \ {n}]_vars
    /\ [](\A f \in facts : f # <<>> /\ normalize(f) = f)

\* Both facts stored, from the inputs "A" and " b"; adding "A" again would fail.
C14_Witness ==
    /\ pc = "idle"
    /\ facts = {tok_a, tok_b}
    /\ ~add_fact(facts, <<"A">>).ok
    /\ ~add_fact(facts, in_blank).ok
    /\ remove_fact(facts, <<" ", "b">>).ok

\* C15: a run over an empty Fact Store, or with an empty Rule Store, returns
\* the facts it began with and an empty trace.
C15_EmptyStores ==
    (pc = "done" /\ fb_run = facts /\ (facts = {} \/ rules = <<>>)) =>
        (inferred = fb_run /\ trace = <<>>)

\* The canonical form as stated for normalize: leading and trailing whitespace
\* gone, letters in lower case, every run of whitespace left inside replaced by
\* one "_".
RECURSIVE CollapseRuns(_)
CollapseRuns(s) ==
    IF s = <<>> THEN <<>>
    ELSE IF IsSpace(Head(s))
         THEN <<"_">> \o CollapseRuns(lstrip(s))
         ELSE <<Head(s)>> \o CollapseRuns(Tail(s))

Canonical(s) == CollapseRuns(lower(strip(s)))

\* C16: normalize returns its argument trimmed, in lower case, with every
\* internal run of whitespace characters replaced by exactly one "_".
C16_NormalizeCollapses == pc = "returned" => token = Canonical(text)

\* C17: a rule whose conclusion is one of its own conditions never appears in
\* a trace: no trace entry has its conclusion among its conditions, and no
\* stored rule of that kind is named by the trace of a run over the store.
C17_SelfReferring ==
    /\ \A k \in 1..Len(trace) : trace[k].conclusion \notin CondSet(trace[k])
    /\ \A i \in DOMAIN rules :
           rules[i].conclusion \in CondSet(rules[i]) =>
               \A k \in 1..Len(trace) : trace[k].rule_id # i

\* A finished run in which other rules fired and a rule a -> a, its condition
\* known, did not.
C17_Witness ==
    /\ pc = "done"
    /\ trace # <<>>
    /\ \E i \in DOMAIN rules :
           /\ rules[i].conclusion \in CondSet(rules[i])
           /\ CondSet(rules[i]) \subseteq inferred
           /\ \A k \in 1..Len(trace) : trace[k].rule_id # i

\* C18: a run leaves the Fact Store's facts and every stored rule as they
\* were: only the calls of the stores, made between runs, change them, and
\* through a first run the Fact Store still holds the facts the run began with.
C18_RunFrame ==
    /\ [][(pc # "idle" \/ pc' # "idle") => (rules' = rules /\ facts' = facts)]_vars
    /\ []((pc # "idle" /\ ~prev.has) => facts = fb_run)

\* A finished run that derived two facts the Fact Store does not hold.
C18_Witness ==
    /\ pc = "done"
    /\ ~prev.has
    /\ facts = fb_run
    /\ Cardinality(inferred \ facts) >= 2
    /\ Len(trace) >= 2

\* The engine the guard is compared with: the passes of run over the same
\* ordered rules, a rule firing when all its conditions are known and its id
\* is not among those already applied.
RECURSIVE ByIdPass(_, _, _)
ByIdPass(L, k, st) ==
    IF k > Len(L) THEN st
    ELSE IF CondSet(L[k]) \subseteq st.inferred /\ L[k].id \notin st.ids
         THEN ByIdPass(L, k + 1,
                       [inferred |-> st.inferred \cup {L[k].conclusion},
                        trace |-> Append(st.trace, TraceEntry(L[k], st.step)),
                        step |-> st.step + 1,
                        ids |-> st.ids \cup {L[k].id},
                        applied |-> TRUE])
         ELSE ByIdPass(L, k + 1, st)

RECURSIVE ByIdLoop(_, _)
ByIdLoop(L, st) ==
    LET p == ByIdPass(L, 1, [st EXCEPT !.applied = FALSE])
    IN  IF p.applied THEN ByIdLoop(L, p) ELSE p

ByIdRun(rs, fb) ==
    ByIdLoop(list_rules(rs),
             [inferred |-> fb, trace |-> <<>>, step |-> 1, ids |-> {}, applied |-> FALSE])

\* Every stored rule whose conditions are all in the returned set has fired.
AllSatisfiedFired ==
    \A i \in DOMAIN rules :
        CondSet(rules[i]) \subseteq inferred => \E k \in 1..Len(trace) : trace[k].rule_id = i

\* C19 as stated: the engine with the rule-id guard returns the same inferred
\* set and the same trace as run, for every store and every initial facts.
C19_GuardEquivalent ==
    pc = "done" =>
        /\ ByIdRun(rules, fb_run).inferred = inferred
        /\ ByIdRun(rules, fb_run).trace = trace

\* C19 amended: the engine with the rule-id guard returns the same inferred
\* set as run; it returns the same trace exactly when every stored rule whose
\* conditions are all in the returned set has fired in run, and otherwise its
\* trace has entries for rules run never fired.
C19_GuardSameFacts ==
    pc = "done" =>
        LET alt == ByIdRun(rules, fb_run)
        IN  /\ alt.inferred = inferred
            /\ (alt.trace = trace) <=> AllSatisfiedFired
            /\ \A k \in 1..Len(trace) : trace[k].rule_id \in alt.ids
            /\ ~AllSatisfiedFired => Len(alt.trace) > Len(trace)

\* A run of two firings that a rule with its conclusion among the initial
\* facts sat out, and the other engine fired.
C19_Witness ==
    /\ pc = "done"
    /\ Len(trace) >= 2
    /\ ~AllSatisfiedFired
    /\ ByIdRun(rules, fb_run).trace # trace
    /\ ByIdRun(rules, fb_run).inferred = inferred

\* Every token the store and the initial facts of the run mention.
TokensOf(rs, fb) ==
    fb \cup {rs[i].conclusion : i \in DOMAIN rs} \cup UNION {CondSet(rs[i]) : i \in DOMAIN rs}

\* C20: the set run returns is the least superset of the initial facts closed
\* under the stored rules, a set fixed by the rules' conditions and conclusions
\* alone and not by their priorities and ids; the category is classify of it.
C20_LeastClosed ==
    /\ pc = "done" =>
           /\ fb_run \subseteq inferred
           /\ Closed(rules, inferred)
           /\ \A S \in SUBSET TokensOf(rules, fb_run) :
                  (fb_run \subseteq S /\ Closed(rules, S)) => inferred \subseteq S
    /\ final # <<>> =>
           \A S \in SUBSET TokensOf(rules, fb_run) :
               (/\ fb_run \subseteq S
                /\ Closed(rules, S)
                /\ \A T \in SUBSET S : (fb_run \subseteq T /\ Closed(rules, T)) => T = S)
               => final = classify(S)

\* A classified run of three firings over rules of different priorities, the
\* rule with the largest id first.
C20_Witness ==
    /\ pc = "done"
    /\ final = tok_b3
    /\ Len(trace) = 3
    /\ \E i, j \in DOMAIN rules : rules[i].priority # rules[j].priority
    /\ trace[1].rule_id = R3

====
